---- MODULE Spec2Model ----
(***************************************************************************)
(* Model of the constrictor snake simulation: Direction, Vector2, Board,   *)
(* Snake and SnakeSimulation of constrictor-core.                          *)
(*                                                                         *)
(* A behaviour first owns a free-standing Snake (Snake::new followed by    *)
(* Snake::advance / Snake::try_set_facing calls), then hands it, a Board   *)
(* and a food position to SnakeSimulation::new, and from then on calls the *)
(* engine's quit / change_player_move_direction / advance in any order.    *)
(*                                                                         *)
(* Option<T> values are sequences of length 0 (None) or 1 (Some(v)).       *)
(* Return values are recorded as strings in ret.                           *)
(***************************************************************************)
EXTENDS Integers, Sequences, FiniteSets, TLC

VARIABLES
    pc,                  \* "snake": free-standing Snake; "sim": engine built;
                         \* "err": new() returned Err; "panic": a call panicked;
                         \* "board", "returned": a Board, before and after its
                         \* random_free_cell call (SpecBoard)
                         \* "direction": a Direction value (SpecDirection)
    board,               \* SnakeSimulation::board
    facing,              \* Snake::facing
    last_move_direction, \* Snake::last_move_direction
    body,                \* Snake::body, head first
    body_point_counts,   \* Snake::body_point_counts
    food_position,       \* SnakeSimulation::food_position (<<>> before new())
    simulation_result,   \* SnakeSimulation::simulation_result
    call,                \* the last call made: its name and arguments
    ret,                 \* what the last call returned
    old,                 \* the engine state the last engine call started from
    main_pc,             \* where main is: "test" (the while condition), "drain"
                         \* (the for loop over the commands), "advance",
                         \* "done" (main has returned), "aborted" (the rest of
                         \* the iteration failed); "none" when main is not run
    channel,             \* the events sent to the mpsc channel and not yet received
    produced,            \* every event the capture thread has sent, in order
    applied,             \* every command main has applied to the engine, in order
    iterations,          \* how many iterations of the loop of main were begun
    advances             \* how many times main has called sim.advance()

\* The variables of constrictor-cli: main and its EventStream.
cli_vars == <<main_pc, channel, produced, applied, iterations, advances>>

vars == <<pc, board, facing, last_move_direction, body, body_point_counts,
          food_position, simulation_result, call, ret, old,
          main_pc, channel, produced, applied, iterations, advances>>

-----------------------------------------------------------------------------
(* Bounds of the model *)

\* Boards have at most this many cells.
MaxCells == 6

\* Boards are at most this wide and this high.
MaxSide == 3

\* A free-standing snake is grown to at most this length before new().
MaxPreLen == 5

\* A free-standing snake stays within this distance of the board.
Margin == 1

\* A Direction is turned at most this many times in a row (SpecDirection).
MaxTurns == 4

\* The capture thread sends at most this many events (SpecInput).
MaxEvents == 2

\* create_game(GameWidth, GameHeight) is the game main drives (SpecInput);
\* main passes 32 and 32.
GameWidth == 8
GameHeight == 2

\* Lower corner of every board, as in create_game.
BoardOrigin == 1

\* create_game puts the snake this far left of the centre and the food this
\* far right of it.
SpawnOffset == 3

-----------------------------------------------------------------------------
(* math::Direction *)

Direction == {"Up", "Right", "Down", "Left"}

\* Mutant of ccw: the quarter turn goes the other way round.
ccw_clockwise(d) ==
    CASE d = "Up" -> "Right"
      [] d = "Right" -> "Down"
      [] d = "Down" -> "Left"
      [] d = "Left" -> "Up"

ccw(d) ==
    CASE d = "Up" -> "Left"
      [] d = "Left" -> "Down"
      [] d = "Down" -> "Right"
      [] d = "Right" -> "Up"

flip(d) == ccw(ccw(d))

cw(d) == ccw(flip(d))

(* math::Vector2 *)

Vector2(px, py) == [x |-> px, y |-> py]

neighbour(p, direction, magnitude) ==
    CASE direction = "Up" -> [p EXCEPT !.y = p.y + magnitude]
      [] direction = "Down" -> [p EXCEPT !.y = p.y - magnitude]
      [] direction = "Left" -> [p EXCEPT !.x = p.x - magnitude]
      [] direction = "Right" -> [p EXCEPT !.x = p.x + magnitude]

-----------------------------------------------------------------------------
(* models::Board *)

Min(a, b) == IF a <= b THEN a ELSE b
Max(a, b) == IF a >= b THEN a ELSE b

\* Board::new; callers only pass x[1] < x[2] and y[1] < y[2] (the asserts).
BoardNew(x, y) ==
    [min_x |-> Min(x[1], x[2]), max_x |-> Max(x[1], x[2]),
     min_y |-> Min(y[1], y[2]), max_y |-> Max(y[1], y[2])]

width(b) == b.max_x - b.min_x
height(b) == b.max_y - b.min_y

x_range(b) == b.min_x .. (b.max_x - 1)
y_range(b) == b.min_y .. (b.max_y - 1)

\* Mutant of cell_iter: x outer, y inner.
cell_iter_column_major(b) ==
    [i \in 1 .. (width(b) * height(b)) |->
        Vector2(b.min_x + ((i - 1) \div height(b)), b.min_y + ((i - 1) % height(b)))]

\* The cells in the order cell_iter yields them: y outer, x inner.
cell_iter(b) ==
    [i \in 1 .. (width(b) * height(b)) |->
        Vector2(b.min_x + ((i - 1) % width(b)), b.min_y + ((i - 1) \div width(b)))]

\* Mutant of BoardContains: the upper bounds are inclusive.
BoardContainsInclusive(b, point) ==
    point.x \in b.min_x .. b.max_x /\ point.y \in b.min_y .. b.max_y

BoardContains(b, point) == point.x \in x_range(b) /\ point.y \in y_range(b)

\* Mutant of FreeCellSeq: the taken cells are not filtered out.
FreeCellSeqUnfiltered(b, is_taken) == cell_iter(b)

\* The free cells in scan order: cell_iter().filter(|cell| !is_taken(cell)).
\* The predicate is_taken is given as the set of the cells it holds for.
FreeCellSeq(b, is_taken) == SelectSeq(cell_iter(b), LAMBDA cell : cell \notin is_taken)

\* .skip(target_cell).next() on the free cells: the free cell with target_cell
\* free cells before it in the scan, None when there are not that many.
skip_next(b, is_taken, target_cell) ==
    LET free == FreeCellSeq(b, is_taken)
    IN  IF target_cell < Len(free) THEN <<free[target_cell + 1]>> ELSE <<>>

\* The outcomes of Board::random_free_cell, each a record [panic, target_cell,
\* cell] (target_cell is the number drawn, 0 when the call panics before):
\*  - total_cells - taken_cell_count underflows when more cells are claimed
\*    taken than exist: a debug build panics, a release build wraps to a huge
\*    usize, and then target_cell may be any index, below or above the number
\*    of free cells;
\*  - rand::random_range(0..0) panics (empty range);
\*  - otherwise target_cell is any k in 0..free_cells-1, and the result is the
\*    k-th free cell of the scan, or None when the scan ends first.
random_free_cell(b, taken_cell_count, is_taken) ==
    LET total_cells == width(b) * height(b)
        Some(k) == [panic |-> FALSE, target_cell |-> k,
                    cell |-> skip_next(b, is_taken, k)]
        Panic == [panic |-> TRUE, target_cell |-> 0, cell |-> <<>>]
    IN  IF taken_cell_count > total_cells
          THEN {Panic} \cup {Some(k) : k \in 0 .. total_cells}
        ELSE IF total_cells - taken_cell_count = 0
          THEN {Panic}
        ELSE {Some(k) : k \in 0 .. (total_cells - taken_cell_count - 1)}

-----------------------------------------------------------------------------
(* models::Snake *)

EmptyMap == [p \in {} |-> 0]

len == Len(body)
head == body[1]
tail == body[Len(body)]

SnakeContains(point) == point \in DOMAIN body_point_counts

next_head_position == neighbour(head, facing, 1)

\* Mutant of CountsAfterPush: the point is entered with count 1, whatever its
\* count was.
CountsAfterPushSet(counts, p) ==
    [q \in (DOMAIN counts) \cup {p} |-> IF q = p THEN 1 ELSE counts[q]]

\* *self.body_point_counts.entry(head).or_insert(0) += 1
CountsAfterPush(counts, p) ==
    [q \in (DOMAIN counts) \cup {p} |->
        IF q = p THEN (IF p \in DOMAIN counts THEN counts[p] ELSE 0) + 1
                 ELSE counts[q]]

\* Mutant of CountsAfterPop: the entry is removed whatever its count.
CountsAfterPopRemoves(counts, p) ==
    [q \in (DOMAIN counts) \ {p} |-> counts[q]]

\* The match in pop_tail; a vacant entry is the unreachable!() arm.
CountsAfterPop(counts, p) ==
    IF p \in DOMAIN counts /\ counts[p] <= 1
      THEN [q \in (DOMAIN counts) \ {p} |-> counts[q]]
    ELSE IF p \in DOMAIN counts
      THEN [counts EXCEPT ![p] = counts[p] - 1]
    ELSE counts

PopTailDiverged(counts, bd) == bd # <<>> /\ bd[Len(bd)] \notin DOMAIN counts

\* Mutant of BodyAfterAdvance: the tail is never dropped.
BodyAfterAdvanceNoPop(consumed_food) == <<next_head_position>> \o body

\* Mutant of BodyAfterAdvance: the tail is dropped when food was consumed.
BodyAfterAdvancePopsOnFood(consumed_food) ==
    LET popped == IF consumed_food THEN SubSeq(body, 1, Len(body) - 1) ELSE body
    IN  <<next_head_position>> \o popped

\* The body and the counts after Snake::advance(consumed_food): new head
\* computed first, tail popped unless food was consumed, head pushed.
BodyAfterAdvance(consumed_food) ==
    LET popped == IF consumed_food THEN body ELSE SubSeq(body, 1, Len(body) - 1)
    IN  <<next_head_position>> \o popped

CountsAfterAdvance(consumed_food) ==
    LET popped == IF consumed_food THEN body_point_counts
                  ELSE CountsAfterPop(body_point_counts, tail)
    IN  CountsAfterPush(popped, next_head_position)

\* Mutant of FacingAccepted: every direction is taken.
FacingAcceptedAlways(new_direction) == TRUE

\* Mutant of FacingAccepted: the flip is left out of the comparison.
FacingAcceptedWithoutFlip(new_direction) == new_direction # last_move_direction

\* Mutant of FacingAccepted: the new direction is compared with the facing.
FacingAcceptedAgainstFacing(new_direction) == new_direction # flip(facing)

\* The condition under which try_set_facing takes the new direction.
FacingAccepted(new_direction) == new_direction # flip(last_move_direction)

-----------------------------------------------------------------------------
(* Bookkeeping of calls *)

\* The direction of a call that passes none.
NoDir == "-"

\* The engine state a call starts from. direction_call is filled in by
\* advance() only: the direction passed by the call made just before it, NoDir
\* when that call was not change_player_move_direction.
Snapshot ==
    [pc |-> pc, facing |-> facing, last_move_direction |-> last_move_direction,
     body |-> body, body_point_counts |-> body_point_counts,
     food_position |-> food_position, simulation_result |-> simulation_result,
     direction_call |-> NoDir]

Call(op, dir, flag, point) == [op |-> op, dir |-> dir, flag |-> flag, point |-> point]

\* The boards of the model: every width x height of at most MaxSide a side
\* and at most MaxCells cells.
Boards ==
    {BoardNew(<<BoardOrigin, BoardOrigin + d[1]>>, <<BoardOrigin, BoardOrigin + d[2]>>) :
        d \in {wh \in (1 .. MaxSide) \X (1 .. MaxSide) : wh[1] * wh[2] <= MaxCells}}

\* The positions a free-standing snake ranges over.
World(b) ==
    {Vector2(px, py) : px \in (b.min_x - Margin) .. (b.max_x - 1 + Margin),
                       py \in (b.min_y - Margin) .. (b.max_y - 1 + Margin)}

\* The food positions passed to new(): every cell of the board, and one cell
\* just off the board on each of its four sides.
OffBoardArgs(b) ==
    {Vector2(b.min_x - 1, b.min_y), Vector2(b.max_x, b.min_y),
     Vector2(b.min_x, b.min_y - 1), Vector2(b.min_x, b.max_y)}

FoodArgs(b) ==
    {Vector2(px, py) : px \in x_range(b), py \in y_range(b)} \cup OffBoardArgs(b)

AllFoodArgs == UNION {FoodArgs(b) : b \in Boards}


\* main is not run: the core is called directly.
CliIdle ==
    /\ main_pc = "none"
    /\ channel = <<>>
    /\ produced = <<>>
    /\ applied = <<>>
    /\ iterations = 0
    /\ advances = 0

-----------------------------------------------------------------------------
(* Snake::new, and the calls on a free-standing Snake *)

Init ==
    /\ pc = "snake"
    /\ board \in Boards
    /\ \E head_position \in World(board), d \in Direction :
          /\ facing = d
          /\ last_move_direction = d
          /\ body = <<head_position>>
          /\ body_point_counts = CountsAfterPush(EmptyMap, head_position)
          /\ call = Call("Snake::new", d, FALSE, <<head_position>>)
    /\ food_position = <<>>
    /\ simulation_result = "None"
    /\ ret = "Snake"
    /\ old = [pc |-> "none", facing |-> NoDir, last_move_direction |-> NoDir,
              body |-> <<>>, body_point_counts |-> EmptyMap,
              food_position |-> <<>>, simulation_result |-> "None",
              direction_call |-> NoDir]
    /\ CliIdle

\* Snake::advance(consumed_food) on a free-standing snake.
SnakeAdvance(consumed_food) ==
    /\ pc = "snake"
    /\ Len(body) + (IF consumed_food THEN 1 ELSE 0) <= MaxPreLen
    /\ next_head_position \in World(board)
    /\ call' = Call("Snake::advance", NoDir, consumed_food, <<>>)
    /\ IF ~consumed_food /\ PopTailDiverged(body_point_counts, body)
         THEN /\ pc' = "panic"
              /\ ret' = "panic"
              /\ body' = SubSeq(body, 1, Len(body) - 1)
              /\ UNCHANGED <<body_point_counts, last_move_direction>>
         ELSE /\ body' = BodyAfterAdvance(consumed_food)
              /\ body_point_counts' = CountsAfterAdvance(consumed_food)
              /\ last_move_direction' = facing
              /\ ret' = "()"
              /\ UNCHANGED pc
    /\ UNCHANGED <<board, facing, food_position, simulation_result, old>>
    /\ UNCHANGED cli_vars

\* Snake::try_set_facing(new_direction) on a free-standing snake.
SnakeTrySetFacing(new_direction) ==
    /\ pc = "snake"
    /\ call' = Call("Snake::try_set_facing", new_direction, FALSE, <<>>)
    /\ IF FacingAccepted(new_direction)
         THEN facing' = new_direction /\ ret' = "true"
         ELSE facing' = facing /\ ret' = "false"
    /\ UNCHANGED <<pc, board, last_move_direction, body, body_point_counts,
                   food_position, simulation_result, old>>
    /\ UNCHANGED cli_vars

-----------------------------------------------------------------------------
(* models::SnakeSimulation *)

\* Mutant of NewResult: every body cell is checked against the board before
\* any is checked against the food.
NewResultBoundsFirst(b, bd, food) ==
    IF ~BoardContains(b, food) THEN "Err(FoodOutOfBounds)"
    ELSE IF \E i \in 1 .. Len(bd) : ~BoardContains(b, bd[i]) THEN "Err(SnakeOutOfBounds)"
    ELSE IF \E i \in 1 .. Len(bd) : food = bd[i] THEN "Err(SnakeOverlapsFood)"
    ELSE "Ok"

\* Mutant of NewResult: of the body only the head is checked.
NewResultHeadOnly(b, bd, food) ==
    IF ~BoardContains(b, food) THEN "Err(FoodOutOfBounds)"
    ELSE IF ~BoardContains(b, bd[1]) THEN "Err(SnakeOutOfBounds)"
    ELSE IF food = bd[1] THEN "Err(SnakeOverlapsFood)"
    ELSE "Ok"

\* What SnakeSimulation::new returns for a board, a snake body and a food
\* position: the food is checked first, then the body head to tail, each cell
\* for being on the board and then for lying on the food.
NewResult(b, bd, food) ==
    IF ~BoardContains(b, food) THEN "Err(FoodOutOfBounds)"
    ELSE LET bad == {i \in 1 .. Len(bd) : ~BoardContains(b, bd[i]) \/ food = bd[i]}
         IN  IF bad = {} THEN "Ok"
             ELSE LET first == CHOOSE i \in bad : \A j \in bad : i <= j
                  IN  IF ~BoardContains(b, bd[first]) THEN "Err(SnakeOutOfBounds)"
                      ELSE "Err(SnakeOverlapsFood)"

\* SnakeSimulation::new(board, snake, food). The snake is moved into the
\* call: on Ok the engine owns it, on Err it is dropped.
New(food) ==
    /\ pc = "snake"
    /\ BoardContains(board, food) \/ food \in OffBoardArgs(board)
    /\ call' = Call("new", NoDir, FALSE, <<food>>)
    /\ ret' = NewResult(board, body, food)
    /\ IF ret' = "Ok"
         THEN /\ pc' = "sim"
              /\ food_position' = <<food>>
              /\ UNCHANGED <<body, body_point_counts>>
         ELSE /\ pc' = "err"
              /\ food_position' = <<>>
              /\ body' = <<>>
              /\ body_point_counts' = EmptyMap
    /\ simulation_result' = "None"
    /\ UNCHANGED <<board, facing, last_move_direction, old>>
    /\ UNCHANGED cli_vars

\* Mutant of ResultAfterQuit: the guard on the stored result is inverted.
ResultAfterQuitInverted(result) ==
    IF result = "None" THEN result ELSE "ManuallyTerminated"

\* The result quit() stores, given the result stored before.
ResultAfterQuit(result) == "ManuallyTerminated"

\* SnakeSimulation::quit(): what the call does to the engine.
quit ==
    /\ pc = "sim"
    /\ call' = Call("quit", NoDir, FALSE, <<>>)
    /\ old' = Snapshot
    /\ simulation_result' = ResultAfterQuit(simulation_result)
    /\ ret' = "()"
    /\ UNCHANGED <<pc, board, facing, last_move_direction, body, body_point_counts,
                   food_position>>

\* SnakeSimulation::change_player_move_direction(new_direction): what the
\* call does to the engine.
change_player_move_direction(new_direction) ==
    /\ pc = "sim"
    /\ call' = Call("change_player_move_direction", new_direction, FALSE, <<>>)
    /\ old' = Snapshot
    /\ facing' = IF FacingAccepted(new_direction) THEN new_direction ELSE facing
    /\ ret' = "()"
    /\ UNCHANGED <<pc, board, last_move_direction, body, body_point_counts,
                   food_position, simulation_result>>

\* Mutant of AdvanceShortCircuits: the stored result is not looked at.
AdvanceNeverShortCircuits == FALSE

\* Mutant of WillHitWall: only the x coordinate is tested.
WillHitWallXOnly == next_head_position.x \notin x_range(board)

\* Mutant of WillHitWall: the upper bounds are taken as inclusive.
WillHitWallInclusive ==
    ~(/\ next_head_position.x \in board.min_x .. board.max_x
      /\ next_head_position.y \in board.min_y .. board.max_y)

\* The conditions advance() tests, in the order it tests them.
AdvanceShortCircuits == simulation_result # "None"

WillHitWall == ~BoardContains(board, next_head_position)

snake_will_hit_food == next_head_position = food_position[1]

snake_will_hit_tail == next_head_position = tail

\* Mutant of WillHitSelf: the snake never collides with itself.
WillHitSelfNever == FALSE

\* Mutant of WillHitSelf: the tail test is inverted.
WillHitSelfInvertedTail ==
    SnakeContains(next_head_position) /\ (snake_will_hit_tail \/ snake_will_hit_food)

\* Mutant of WillHitSelf: any occupied cell is a collision, the tail included.
WillHitSelfNoTailExemption == SnakeContains(next_head_position)

WillHitSelf ==
    SnakeContains(next_head_position) /\ (~snake_will_hit_tail \/ snake_will_hit_food)

\* Mutant of random_valid_food_position: the food is respawned against the
\* snake as it was before it moved.
random_valid_food_position_stale(bd, counts) ==
    random_free_cell(board, Len(body), DOMAIN body_point_counts)

\* random_valid_food_position for a snake with the given body and counts.
random_valid_food_position(bd, counts) ==
    random_free_cell(board, Len(bd), DOMAIN counts)

\* SnakeSimulation::advance(): what the call does to the engine.
advance ==
    /\ pc = "sim"
    /\ call' = Call("advance", NoDir, FALSE, <<>>)
    /\ old' = [Snapshot EXCEPT !.direction_call = call.dir]
    /\ IF AdvanceShortCircuits THEN
            /\ ret' = simulation_result
            /\ UNCHANGED <<pc, facing, last_move_direction, body, body_point_counts,
                           food_position, simulation_result>>
       ELSE IF WillHitWall THEN
            /\ simulation_result' = "Died(HitWall)"
            /\ ret' = "Died(HitWall)"
            /\ UNCHANGED <<pc, facing, last_move_direction, body, body_point_counts,
                           food_position>>
       ELSE IF WillHitSelf THEN
            /\ simulation_result' = "Died(HitSelf)"
            /\ ret' = "Died(HitSelf)"
            /\ UNCHANGED <<pc, facing, last_move_direction, body, body_point_counts,
                           food_position>>
       ELSE IF ~snake_will_hit_food /\ PopTailDiverged(body_point_counts, body) THEN
            /\ pc' = "panic"
            /\ ret' = "panic"
            /\ body' = SubSeq(body, 1, Len(body) - 1)
            /\ UNCHANGED <<facing, last_move_direction, body_point_counts,
                           food_position, simulation_result>>
       ELSE LET new_body == BodyAfterAdvance(snake_will_hit_food)
                new_counts == CountsAfterAdvance(snake_will_hit_food)
            IN  /\ body' = new_body
                /\ body_point_counts' = new_counts
                /\ last_move_direction' = facing
                /\ UNCHANGED facing
                /\ IF ~snake_will_hit_food THEN
                        /\ ret' = "None"
                        /\ UNCHANGED <<pc, food_position, simulation_result>>
                   ELSE \E spawn_result \in random_valid_food_position(new_body, new_counts) :
                        IF spawn_result.panic THEN
                            /\ pc' = "panic"
                            /\ ret' = "panic"
                            /\ UNCHANGED <<food_position, simulation_result>>
                        ELSE IF spawn_result.cell # <<>> THEN
                            /\ food_position' = spawn_result.cell
                            /\ ret' = "None"
                            /\ UNCHANGED <<pc, simulation_result>>
                        ELSE
                            /\ simulation_result' = "Won"
                            /\ ret' = "Won"
                            /\ UNCHANGED <<pc, food_position>>
    /\ UNCHANGED board

-----------------------------------------------------------------------------
(* The engine called directly *)

Quit == quit /\ UNCHANGED cli_vars

ChangePlayerMoveDirection(new_direction) ==
    change_player_move_direction(new_direction) /\ UNCHANGED cli_vars

Advance == advance /\ UNCHANGED cli_vars

Next ==
    \/ \E consumed_food \in BOOLEAN : SnakeAdvance(consumed_food)
    \/ \E new_direction \in Direction : SnakeTrySetFacing(new_direction)
    \/ \E food \in AllFoodArgs : New(food)
    \/ Quit
    \/ \E new_direction \in Direction : ChangePlayerMoveDirection(new_direction)
    \/ Advance

Spec == Init /\ [][Next]_vars

-----------------------------------------------------------------------------
(* Board::random_free_cell on its own: a Board, and calls with any           *)
(* taken_cell_count and any predicate is_taken, whether or not they agree.   *)
(* Here call is the record of the arguments and ret the outcome record of    *)
(* random_free_cell; the variables of the snake and the engine stay as       *)
(* InitBoard sets them.                                                      *)

\* The cells of a board, as a set.
BoardCells(b) == {Vector2(px, py) : px \in x_range(b), py \in y_range(b)}

InitBoard ==
    /\ pc = "board"
    /\ board \in Boards
    /\ call = [op |-> "Board::new", taken_cell_count |-> 0, is_taken |-> {}]
    /\ ret = [panic |-> FALSE, target_cell |-> 0, cell |-> <<>>]
    /\ facing = NoDir
    /\ last_move_direction = NoDir
    /\ body = <<>>
    /\ body_point_counts = EmptyMap
    /\ food_position = <<>>
    /\ simulation_result = "None"
    /\ old = [pc |-> "none", facing |-> NoDir, last_move_direction |-> NoDir,
              body |-> <<>>, body_point_counts |-> EmptyMap,
              food_position |-> <<>>, simulation_result |-> "None",
              direction_call |-> NoDir]
    /\ CliIdle

\* board.random_free_cell(taken_cell_count, is_taken): taken_cell_count up to
\* one more than the board has cells, is_taken any set of board cells. The
\* call reads the board and nothing else, so one call per behaviour shows all
\* it can do.
RandomFreeCell ==
    /\ pc = "board"
    /\ \E taken_cell_count \in 0 .. (width(board) * height(board) + 1),
          is_taken \in SUBSET BoardCells(board) :
          /\ call' = [op |-> "Board::random_free_cell",
                      taken_cell_count |-> taken_cell_count,
                      is_taken |-> is_taken]
          /\ ret' \in random_free_cell(board, taken_cell_count, is_taken)
    /\ pc' = IF ret'.panic THEN "panic" ELSE "returned"
    /\ UNCHANGED <<board, facing, last_move_direction, body, body_point_counts,
                   food_position, simulation_result, old>>
    /\ UNCHANGED cli_vars

NextBoard == RandomFreeCell

SpecBoard == InitBoard /\ [][NextBoard]_vars

-----------------------------------------------------------------------------
(* A game: the engine built from a Snake::new snake of one cell, as          *)
(* create_game builds it, and the engine calls of the driving loop.          *)

InitGame ==
    /\ pc = "sim"
    /\ board \in Boards
    /\ \E head_position \in World(board), d \in Direction, food \in FoodArgs(board) :
          /\ NewResult(board, <<head_position>>, food) = "Ok"
          /\ facing = d
          /\ last_move_direction = d
          /\ body = <<head_position>>
          /\ body_point_counts = CountsAfterPush(EmptyMap, head_position)
          /\ food_position = <<food>>
          /\ call = Call("new", NoDir, FALSE, <<food>>)
    /\ simulation_result = "None"
    /\ ret = "Ok"
    /\ old = [pc |-> "none", facing |-> NoDir, last_move_direction |-> NoDir,
              body |-> <<>>, body_point_counts |-> EmptyMap,
              food_position |-> <<>>, simulation_result |-> "None",
              direction_call |-> NoDir]
    /\ CliIdle

NextGame ==
    \/ Quit
    \/ \E new_direction \in Direction : ChangePlayerMoveDirection(new_direction)
    \/ Advance

SpecGame == InitGame /\ [][NextGame]_vars

\* A game in which no direction change and no quit is ever applied: the loop
\* of main calls advance() once per iteration for as long as the result is
\* none, so an advance() that can be made is made.
NextStraight == Advance

SpecStraight == InitGame /\ [][NextStraight]_vars /\ WF_vars(Advance)

-----------------------------------------------------------------------------
(* constrictor-cli: main drives the engine of create_game, and the thread of *)
(* EventStream::new sends what crossterm's read() returns through an mpsc    *)
(* channel. The two threads share the channel only. A step of main is one    *)
(* test of the while condition, one next() of command_iter's EventStream     *)
(* (one try_recv on the channel) with what main does with the value, or the  *)
(* rest of the iteration from sim.advance() on.                              *)

\* The values read() returns that the capture thread sends here: an
\* io::Error, and key events by their KeyCode, one of them no command.
Events == {"Err", "Char(x)", "Char(q)", "Char(w)", "Left", "Char(s)"}

NoCommand == [kind |-> "None", direction |-> NoDir]

\* GameCommand::try_from(KeyEvent), by the KeyCode.
TryFromKeyEvent(code) ==
    IF code \in {"Char(w)", "Up"} THEN [kind |-> "ChangeDirection", direction |-> "Up"]
    ELSE IF code \in {"Char(a)", "Left"} THEN [kind |-> "ChangeDirection", direction |-> "Left"]
    ELSE IF code \in {"Char(s)", "Down"} THEN [kind |-> "ChangeDirection", direction |-> "Down"]
    ELSE IF code \in {"Char(d)", "Right"} THEN [kind |-> "ChangeDirection", direction |-> "Right"]
    ELSE IF code = "Char(q)" THEN [kind |-> "Quit", direction |-> NoDir]
    ELSE NoCommand

\* What the two filter_map adaptors of command_iter make of one item of the
\* EventStream: e.ok() drops an Err, GameCommand::try_from(e).ok() drops an
\* event that is no key and a key that is no command. NoCommand is a dropped
\* item.
Decode(event) ==
    IF event = "Err" THEN NoCommand
    ELSE IF event = "Resize" THEN NoCommand
    ELSE TryFromKeyEvent(event)

\* A receive that leaves the value in the channel.
try_recv_peek(ch) == [value |-> Head(ch), rest |-> ch]

\* Receiver::try_iter().next() on a channel that holds a value: the value
\* sent first, and the channel without it.
try_recv(ch) == [value |-> Head(ch), rest |-> Tail(ch)]

\* create_game(width, height): the board, the one-cell snake and the food.
create_game(w, h) ==
    LET center == Vector2(w \div 2, h \div 2)
    IN  [board |-> BoardNew(<<BoardOrigin, w + 1>>, <<BoardOrigin, h + 1>>),
         head |-> neighbour(center, "Left", SpawnOffset),
         facing |-> "Right",
         food |-> neighbour(center, "Right", SpawnOffset)]

\* main at the first test of the while condition: create_game has returned
\* Ok, the capture thread runs and nothing was sent yet.
InitInput ==
    LET game == create_game(GameWidth, GameHeight)
    IN  /\ NewResult(game.board, <<game.head>>, game.food) = "Ok"
        /\ pc = "sim"
        /\ board = game.board
        /\ facing = game.facing
        /\ last_move_direction = game.facing
        /\ body = <<game.head>>
        /\ body_point_counts = CountsAfterPush(EmptyMap, game.head)
        /\ food_position = <<game.food>>
        /\ simulation_result = "None"
        /\ call = Call("new", NoDir, FALSE, <<game.food>>)
        /\ ret = "Ok"
        /\ old = [pc |-> "none", facing |-> NoDir, last_move_direction |-> NoDir,
                  body |-> <<>>, body_point_counts |-> EmptyMap,
                  food_position |-> <<>>, simulation_result |-> "None",
                  direction_call |-> NoDir]
        /\ main_pc = "test"
        /\ channel = <<>>
        /\ produced = <<>>
        /\ applied = <<>>
        /\ iterations = 0
        /\ advances = 0

engine_vars == <<pc, board, facing, last_move_direction, body, body_point_counts,
                 food_position, simulation_result, call, ret, old>>

\* The capture thread: send.send(read()). The send fails, and the thread
\* returns, once main has dropped the receiver.
Produce(event) ==
    /\ main_pc \in {"test", "drain", "advance"}
    /\ Len(produced) < MaxEvents
    /\ channel' = Append(channel, event)
    /\ produced' = Append(produced, event)
    /\ UNCHANGED engine_vars
    /\ UNCHANGED <<main_pc, applied, iterations, advances>>

\* while sim.result().is_none()
LoopTest ==
    /\ main_pc = "test"
    /\ IF simulation_result = "None"
       THEN main_pc' = "drain" /\ iterations' = iterations + 1
       ELSE main_pc' = "done" /\ UNCHANGED iterations
    /\ UNCHANGED engine_vars
    /\ UNCHANGED <<channel, produced, applied, advances>>

\* The for loop receives GameCommand::Quit: sim.quit().
ReceiveQuit ==
    /\ main_pc = "drain"
    /\ channel # <<>>
    /\ LET received == try_recv(channel)
           command == Decode(received.value)
       IN  /\ command.kind = "Quit"
           /\ channel' = received.rest
           /\ applied' = Append(applied, command)
    /\ quit
    /\ UNCHANGED <<main_pc, produced, iterations, advances>>

\* The for loop receives GameCommand::ChangeDirection(direction):
\* sim.change_player_move_direction(direction).
ReceiveChangeDirection ==
    /\ main_pc = "drain"
    /\ channel # <<>>
    /\ LET received == try_recv(channel)
           command == Decode(received.value)
       IN  /\ command.kind = "ChangeDirection"
           /\ channel' = received.rest
           /\ applied' = Append(applied, command)
           /\ change_player_move_direction(command.direction)
    /\ UNCHANGED <<main_pc, produced, iterations, advances>>

\* A filter_map receives an item it drops, and asks for the next.
ReceiveDropped ==
    /\ main_pc = "drain"
    /\ channel # <<>>
    /\ LET received == try_recv(channel)
       IN  /\ Decode(received.value) = NoCommand
           /\ channel' = received.rest
    /\ UNCHANGED engine_vars
    /\ UNCHANGED <<main_pc, produced, applied, iterations, advances>>

\* The channel is empty: try_iter().next() is None and the for loop ends.
DrainEnds ==
    /\ main_pc = "drain"
    /\ channel = <<>>
    /\ main_pc' = "advance"
    /\ UNCHANGED engine_vars
    /\ UNCHANGED <<channel, produced, applied, iterations, advances>>

\* sim.advance() and the rest of the iteration: the render and the flush
\* return an error that ends main, or Duration::from_millis(75) -
\* frame_duration panics, or the iteration ends and the condition is tested
\* again. A panic of advance() ends main.
Tick ==
    /\ main_pc = "advance"
    /\ advance
    /\ advances' = advances + 1
    /\ IF pc' = "panic" THEN main_pc' = "aborted"
       ELSE main_pc' \in {"test", "aborted"}
    /\ UNCHANGED <<channel, produced, applied, iterations>>

Main ==
    \/ LoopTest
    \/ ReceiveQuit
    \/ ReceiveChangeDirection
    \/ ReceiveDropped
    \/ DrainEnds
    \/ Tick

NextInput ==
    \/ \E event \in Events : Produce(event)
    \/ LoopTest
    \/ ReceiveQuit
    \/ ReceiveChangeDirection
    \/ ReceiveDropped
    \/ DrainEnds
    \/ Tick

\* The main thread is scheduled as long as it can take a step; the capture
\* thread sends only when read() returns, which it need never do.
SpecInput == InitInput /\ [][NextInput]_vars /\ WF_vars(Main)

-----------------------------------------------------------------------------
(* math::Direction on its own: a Direction value and the methods ccw, flip   *)
(* and cw applied to it one after another, d = d.ccw() and so on. Here       *)
(* facing is the value, call the method applied last with the value it was   *)
(* applied to, ret the value it returned, and old the methods applied so far *)
(* (ops) with the values gone through (values, one more than ops).           *)

InitDirection ==
    /\ pc = "direction"
    /\ facing \in Direction
    /\ call = Call("Direction", NoDir, FALSE, <<>>)
    /\ ret = facing
    /\ old = [ops |-> <<>>, values |-> <<facing>>]
    /\ CliIdle
    /\ board = BoardNew(<<BoardOrigin, BoardOrigin + 1>>, <<BoardOrigin, BoardOrigin + 1>>)
    /\ last_move_direction = NoDir
    /\ body = <<>>
    /\ body_point_counts = EmptyMap
    /\ food_position = <<>>
    /\ simulation_result = "None"

\* d.ccw()
Ccw ==
    /\ pc = "direction"
    /\ Len(old.ops) < MaxTurns
    /\ call' = Call("ccw", facing, FALSE, <<>>)
    /\ ret' = ccw(facing)
    /\ facing' = ccw(facing)
    /\ old' = [ops |-> Append(old.ops, "ccw"),
               values |-> Append(old.values, ccw(facing))]
    /\ UNCHANGED <<pc, board, last_move_direction, body, body_point_counts,
                   food_position, simulation_result>>
    /\ UNCHANGED cli_vars

\* d.flip()
Flip ==
    /\ pc = "direction"
    /\ Len(old.ops) < MaxTurns
    /\ call' = Call("flip", facing, FALSE, <<>>)
    /\ ret' = flip(facing)
    /\ facing' = flip(facing)
    /\ old' = [ops |-> Append(old.ops, "flip"),
               values |-> Append(old.values, flip(facing))]
    /\ UNCHANGED <<pc, board, last_move_direction, body, body_point_counts,
                   food_position, simulation_result>>
    /\ UNCHANGED cli_vars

\* d.cw()
Cw ==
    /\ pc = "direction"
    /\ Len(old.ops) < MaxTurns
    /\ call' = Call("cw", facing, FALSE, <<>>)
    /\ ret' = cw(facing)
    /\ facing' = cw(facing)
    /\ old' = [ops |-> Append(old.ops, "cw"),
               values |-> Append(old.values, cw(facing))]
    /\ UNCHANGED <<pc, board, last_move_direction, body, body_point_counts,
                   food_position, simulation_result>>
    /\ UNCHANGED cli_vars

NextDirection == Ccw \/ Flip \/ Cw

SpecDirection == InitDirection /\ [][NextDirection]_vars

-----------------------------------------------------------------------------
(* Properties of the engine.  old is the engine state the last engine call  *)
(* started from, call the call, ret what it returned.                       *)

EngineCall(op) == pc \in {"sim", "panic"} /\ old.pc = "sim" /\ call.op = op

OldRunning == old.simulation_result = "None"
OldHead == old.body[1]
OldTail == old.body[Len(old.body)]
OldFood == old.food_position[1]
OldNextHead == neighbour(OldHead, old.facing, 1)

Cells(bd) == {bd[i] : i \in 1 .. Len(bd)}

\* The point lies within the half-open ranges of the board.
InBoard(point) ==
    /\ board.min_x <= point.x /\ point.x < board.max_x
    /\ board.min_y <= point.y /\ point.y < board.max_y

SnakeUnchanged ==
    /\ body = old.body
    /\ body_point_counts = old.body_point_counts
    /\ facing = old.facing
    /\ last_move_direction = old.last_move_direction

\* C1: while the engine is Running the food is on the board and not on the
\* snake, and every body cell of the snake is on the board.
C1_RunningInvariant ==
    (pc = "sim" /\ simulation_result = "None") =>
        /\ food_position[1] \in BoardCells(board)
        /\ food_position[1] \notin Cells(body)
        /\ ~SnakeContains(food_position[1])
        /\ Cells(body) \subseteq BoardCells(board)

\* Witness of C1: the engine is Running after an advance that ate the food and
\* respawned it.
C1_Witness ==
    /\ EngineCall("advance") /\ OldRunning
    /\ pc = "sim" /\ simulation_result = "None"
    /\ Len(body) = Len(old.body) + 1
    /\ food_position # old.food_position

\* C2: advance() on an engine whose result is set returns that result and
\* changes neither the snake, the food nor the result.
C2_AdvanceAfterTerminalIsNoOp ==
    (EngineCall("advance") /\ ~OldRunning) =>
        /\ ret = old.simulation_result
        /\ simulation_result = old.simulation_result
        /\ food_position = old.food_position
        /\ SnakeUnchanged
        /\ pc = "sim"

\* Witness of C2: advance() was called on an engine that had died.
C2_Witness ==
    /\ EngineCall("advance")
    /\ old.simulation_result = "Died(HitWall)"
    /\ ret = "Died(HitWall)"

\* C3: a result that is set is never replaced by a later engine call.
C3_ResultNeverChanges ==
    (pc = "sim" /\ old.pc = "sim" /\ ~OldRunning) =>
        simulation_result = old.simulation_result

\* C4: quit() on a Running engine sets the result to ManuallyTerminated at once
\* and leaves the snake and the food alone.
C4_QuitWhileRunning ==
    (EngineCall("quit") /\ OldRunning) =>
        /\ simulation_result = "ManuallyTerminated"
        /\ food_position = old.food_position
        /\ SnakeUnchanged
        /\ pc = "sim"

\* Witness of C4: quit() was called on a Running engine.
C4_Witness ==
    /\ EngineCall("quit") /\ OldRunning
    /\ simulation_result = "ManuallyTerminated"

\* C5: advance() on a Running engine ends in Died(HitWall) exactly when the
\* next head position is off the board, whatever the snake and the food are.
C5_HitWallIffOffBoard ==
    (EngineCall("advance") /\ OldRunning) =>
        /\ (simulation_result = "Died(HitWall)") <=> (OldNextHead \notin BoardCells(board))
        /\ (ret = "Died(HitWall)") <=> (OldNextHead \notin BoardCells(board))

\* Witness of C5: a Running engine's advance() ended in Died(HitWall).
C5_Witness ==
    /\ EngineCall("advance") /\ OldRunning
    /\ OldNextHead \notin BoardCells(board)
    /\ simulation_result = "Died(HitWall)"

\* The collision condition of the specification, on the state before the call.
OldCollides ==
    /\ OldNextHead \in Cells(old.body)
    /\ ~(OldNextHead = OldTail /\ OldNextHead # OldFood)

\* C6: with the next head position on the board, advance() ends in
\* Died(HitSelf) exactly when the snake contains that position and it is not
\* the case that it is the tail and not the food; a body cell other than the
\* tail always gives Died(HitSelf).
C6_HitSelfIffCollides ==
    (EngineCall("advance") /\ OldRunning /\ OldNextHead \in BoardCells(board)) =>
        /\ (simulation_result = "Died(HitSelf)") <=> OldCollides
        /\ (ret = "Died(HitSelf)") <=> OldCollides
        /\ (OldNextHead \in Cells(old.body) /\ OldNextHead # OldTail) =>
               simulation_result = "Died(HitSelf)"

\* Witness of C6: the snake ran into a body cell that is not its tail.
C6_Witness ==
    /\ EngineCall("advance") /\ OldRunning
    /\ OldNextHead \in Cells(old.body) /\ OldNextHead # OldTail
    /\ simulation_result = "Died(HitSelf)"

\* C7: when the next head position is the current tail cell and the food is
\* not there, advance() returns none, the engine stays Running, the head lands
\* on the old tail cell and the length is unchanged.
C7_SafeTailFollow ==
    (EngineCall("advance") /\ OldRunning /\ OldNextHead = OldTail /\ OldFood # OldTail) =>
        /\ ret = "None"
        /\ simulation_result = "None"
        /\ pc = "sim"
        /\ head = OldTail
        /\ Len(body) = Len(old.body)

\* Witness of C7: the head has moved onto the cell the tail was on.
C7_Witness ==
    /\ EngineCall("advance") /\ OldRunning
    /\ OldNextHead = OldTail /\ OldFood # OldTail
    /\ ret = "None" /\ head = OldTail

\* The case of C8: a Running engine whose next head position is both the tail
\* cell and the food cell.
C8_Case ==
    /\ pc = "sim" /\ simulation_result = "None"
    /\ next_head_position = tail
    /\ next_head_position = food_position[1]

\* Scenario A at its real size: on the board (1,33)x(1,33) new() accepts a
\* length-1 snake at (13,16) with the food at (19,16), and the cell to the right
\* of the head is (14,16), on the board and not the food.
C9_ScenarioA ==
    LET b == BoardNew(<<1, 33>>, <<1, 33>>)
        h == Vector2(13, 16)
        f == Vector2(19, 16)
    IN  /\ NewResult(b, <<h>>, f) = "Ok"
        /\ neighbour(h, "Right", 1) = Vector2(14, 16)
        /\ BoardContains(b, neighbour(h, "Right", 1))
        /\ neighbour(h, "Right", 1) # f

\* C9: a Running advance() onto a cell of the board that is neither a collision
\* nor the food returns none, moves the head one cell in the facing, keeps the
\* length and leaves the food and the result as they were.
C9_PlainMove ==
    (/\ EngineCall("advance") /\ OldRunning
     /\ OldNextHead \in BoardCells(board)
     /\ ~OldCollides
     /\ OldNextHead # OldFood) =>
        /\ ret = "None"
        /\ pc = "sim"
        /\ head = OldNextHead
        /\ Len(body) = Len(old.body)
        /\ food_position = old.food_position
        /\ simulation_result = "None"
        /\ C9_ScenarioA

\* Witness of C9: a snake of length 1 facing Right, the food further to its
\* right, has moved one cell to the right.
C9_Witness ==
    /\ EngineCall("advance") /\ OldRunning
    /\ Len(old.body) = 1 /\ old.facing = "Right"
    /\ OldFood = Vector2(OldHead.x + 2, OldHead.y)
    /\ ret = "None"
    /\ body = <<Vector2(OldHead.x + 1, OldHead.y)>>

\* C10: an advance() onto the food that leaves at least one cell of the board
\* free returns none, grows the snake by one cell keeping the old tail, and puts
\* the food on a board cell that the moved snake does not occupy.
C10_EatAndRespawn ==
    (/\ EngineCall("advance") /\ OldRunning
     /\ OldNextHead = OldFood
     /\ BoardCells(board) \ (Cells(old.body) \cup {OldNextHead}) # {}) =>
        /\ pc = "sim"
        /\ ret = "None"
        /\ simulation_result = "None"
        /\ body = <<OldNextHead>> \o old.body
        /\ food_position[1] \in BoardCells(board)
        /\ food_position[1] \notin Cells(body)

\* C11: when the snake covers every cell of the board but the food and advance()
\* moves the head onto the food, the result becomes Won and advance() returns
\* Won.
C11_FillBoardWins ==
    (/\ EngineCall("advance") /\ OldRunning
     /\ OldNextHead = OldFood
     /\ Cells(old.body) \cup {OldFood} = BoardCells(board)
     /\ Len(old.body) + 1 = width(board) * height(board)) =>
        /\ pc = "sim"
        /\ ret = "Won"
        /\ simulation_result = "Won"

\* No state has the result Won. It holds for snakes of up to MaxPreLen cells
\* on the boards of MaxCells cells; a snake that loops over itself and is at
\* least as long as the board has cells reaches Won through the wrapped
\* subtraction of random_free_cell.
C11_NeverWon == simulation_result # "Won"

-----------------------------------------------------------------------------
(* Properties of single calls, as action formulas: the unprimed variables   *)
(* are the state the call started from, the primed ones the state it left.  *)

NewErrors == {"Err(FoodOutOfBounds)", "Err(SnakeOutOfBounds)", "Err(SnakeOverlapsFood)"}

\* C12: new() returns an engine exactly when the food is on the board, every
\* body cell of the snake is on the board and no body cell is the food; the
\* engine is then Running and holds the board, the snake and the food it was
\* given; otherwise new() returns one of its three errors.
C12_NewAcceptsIffValid ==
    [][(pc = "snake" /\ call'.op = "new") =>
          LET food == call'.point[1]
              valid == /\ InBoard(food)
                       /\ \A i \in 1 .. Len(body) : InBoard(body[i]) /\ body[i] # food
          IN  /\ (ret' = "Ok") <=> valid
              /\ (pc' = "sim") <=> valid
              /\ valid => /\ simulation_result' = "None"
                          /\ board' = board
                          /\ body' = body
                          /\ body_point_counts' = body_point_counts
                          /\ facing' = facing
                          /\ last_move_direction' = last_move_direction
                          /\ food_position' = <<food>>
              /\ ~valid => (pc' = "err" /\ ret' \in NewErrors)]_vars

\* Witness of C12: new() has returned a Running engine holding a snake of
\* several cells and the food it was given.
C12_Witness ==
    /\ pc = "sim" /\ call.op = "new" /\ ret = "Ok"
    /\ Len(body) >= 3
    /\ food_position = call.point
    /\ simulation_result = "None"

\* The reverse of a direction, as a table.
Opposite(d) ==
    CASE d = "Up" -> "Down"
      [] d = "Down" -> "Up"
      [] d = "Left" -> "Right"
      [] d = "Right" -> "Left"

\* C13: try_set_facing(d) returns false and changes nothing when d is the
\* reverse of the last move direction, and otherwise sets the facing to d and
\* returns true; it never changes the body or the last move direction. The
\* last move direction is the facing right after Snake::new and right after
\* every Snake::advance.
C13_TrySetFacing ==
    /\ [](call.op \in {"Snake::new", "Snake::advance"} /\ pc = "snake" =>
              last_move_direction = facing)
    /\ [][(pc = "snake" /\ call'.op = "Snake::try_set_facing") =>
              /\ body' = body
              /\ body_point_counts' = body_point_counts
              /\ last_move_direction' = last_move_direction
              /\ IF call'.dir = Opposite(last_move_direction)
                    THEN ret' = "false" /\ facing' = facing
                    ELSE ret' = "true" /\ facing' = call'.dir]_vars

\* Witness of C13: after an advance and an accepted turn, the reverse of the
\* last move direction was passed and rejected, the staged turn kept.
C13_Witness ==
    /\ pc = "snake" /\ call.op = "Snake::try_set_facing"
    /\ Len(body) >= 2
    /\ call.dir = Opposite(last_move_direction)
    /\ facing \notin {last_move_direction, call.dir}
    /\ ret = "false"

-----------------------------------------------------------------------------
(* Direction changes between two advances *)

\* An advance() that moved the snake, called right after a
\* change_player_move_direction(old.direction_call).
MovedAfterDirectionCall ==
    /\ EngineCall("advance")
    /\ old.direction_call \in Direction
    /\ body # old.body

\* C14 as stated: the snake moves in the direction passed to the last
\* direction change made before the advance.
C14_LastCallWins ==
    MovedAfterDirectionCall =>
        /\ last_move_direction = old.direction_call
        /\ head = neighbour(OldHead, old.direction_call, 1)

\* C14, amended: the snake moves in the direction passed to the last direction
\* change made before the advance unless that direction is the reverse of the
\* last move; such a call is rejected, and the snake moves in the direction
\* that was staged before it, which is never the rejected one.
C14_LastAcceptedCallWins ==
    MovedAfterDirectionCall =>
        IF old.direction_call # Opposite(old.last_move_direction)
          THEN /\ last_move_direction = old.direction_call
               /\ head = neighbour(OldHead, old.direction_call, 1)
          ELSE /\ last_move_direction = old.facing
               /\ last_move_direction # old.direction_call
               /\ head = neighbour(OldHead, old.facing, 1)

\* Witness of C14: between two advances a turn was accepted and then the
\* reverse of the last move was passed; the snake has moved in the turn's
\* direction.
C14_Witness ==
    /\ MovedAfterDirectionCall
    /\ old.direction_call = Opposite(old.last_move_direction)
    /\ old.facing # old.last_move_direction
    /\ last_move_direction = old.facing
    /\ head = neighbour(OldHead, old.facing, 1)

-----------------------------------------------------------------------------
(* Properties of the Snake *)

\* C15: Snake::advance(consumed_food) puts the new head at the old head moved
\* one cell in the facing, also for a snake of one cell, keeps the rest of the
\* body in order, drops the old tail exactly when consumed_food is false, and
\* sets the last move direction to the facing; the length is unchanged when
\* consumed_food is false and one more when it is true.
C15_SnakeAdvance ==
    [][(pc = "snake" /\ call'.op = "Snake::advance") =>
          /\ pc' = "snake"
          /\ body'[1] = neighbour(body[1], facing, 1)
          /\ Len(body') = Len(body) + (IF call'.flag THEN 1 ELSE 0)
          /\ \A i \in 2 .. Len(body') : body'[i] = body[i - 1]
          /\ call'.flag <=> (body'[Len(body')] = body[Len(body)])
          /\ last_move_direction' = facing
          /\ facing' = facing]_vars

\* Witness of C15: a snake of one cell has advanced without food and still
\* has one cell.
C15_Witness ==
    /\ pc = "snake" /\ call.op = "Snake::advance" /\ ~call.flag
    /\ Len(body) = 1
    /\ ret = "()"

\* How many times a point occurs in a body.
Occurrences(bd, p) == Cardinality({i \in 1 .. Len(bd) : bd[i] = p})

\* C16: the occupancy count of every point is the number of times the point
\* occurs in the body, so contains(p) holds exactly for the points of the body.
C16_OccupancyMatchesBody ==
    /\ DOMAIN body_point_counts = Cells(body)
    /\ \A p \in Cells(body) : body_point_counts[p] = Occurrences(body, p)
    /\ \A p \in World(board) :
          SnakeContains(p) <=> (\E i \in 1 .. Len(body) : body[i] = p)

\* Witness of C16: a snake overlapping itself has advanced without food: the
\* tail left a cell another body cell is on, and the head entered a cell the
\* new tail is on.
C16_Witness ==
    /\ pc = "snake" /\ call.op = "Snake::advance" /\ ~call.flag
    /\ Len(body) >= 5
    /\ body[1] = body[Len(body)]
    /\ body_point_counts[body[1]] = 2
    /\ body_point_counts[body[2]] = 1

-----------------------------------------------------------------------------
(* Properties of Board::random_free_cell, under SpecBoard *)

RandomFreeCellCalled == call.op = "Board::random_free_cell"

\* The cells of the board that the predicate of the call does not hold for.
FreeCells == BoardCells(board) \ call.is_taken

\* The place of a cell in row-major order: rows from min_y up, and in a row
\* the cells from min_x up.
RowMajorIndex(c) == (c.y - board.min_y) * width(board) + (c.x - board.min_x)

\* The number of free cells before a cell in row-major order.
FreeCellsBefore(c) ==
    Cardinality({f \in FreeCells : RowMajorIndex(f) < RowMajorIndex(c)})

\* C17: when taken_cell_count is exactly the number of board cells is_taken
\* holds for and a free cell exists, random_free_cell draws any k below the
\* number of free cells and returns the free cell with k free cells before it
\* in row-major order; k to cell is one-to-one and onto the free cells.
C17_KthFreeCell ==
    (/\ RandomFreeCellCalled
     /\ call.taken_cell_count = Cardinality(call.is_taken)
     /\ FreeCells # {}) =>
        LET ks == 0 .. (Cardinality(FreeCells) - 1)
            outcomes == random_free_cell(board, call.taken_cell_count, call.is_taken)
        IN  /\ ~ret.panic /\ pc = "returned"
            /\ ret.target_cell \in ks
            /\ Len(ret.cell) = 1
            /\ ret.cell[1] \in FreeCells
            /\ FreeCellsBefore(ret.cell[1]) = ret.target_cell
            /\ {o.target_cell : o \in outcomes} = ks
            /\ \A c \in FreeCells :
                  Cardinality({o \in outcomes : o.cell = <<c>>}) = 1

\* Witness of C17: on a board of several rows and columns a call with the
\* exact count has skipped a taken cell and a free cell and returned a free
\* cell of a later row.
C17_Witness ==
    /\ RandomFreeCellCalled /\ ~ret.panic
    /\ width(board) >= 2 /\ height(board) >= 2
    /\ call.taken_cell_count = Cardinality(call.is_taken)
    /\ ret.target_cell >= 1
    /\ Len(ret.cell) = 1
    /\ ret.cell[1].y > board.min_y
    /\ \E t \in call.is_taken : RowMajorIndex(t) < RowMajorIndex(ret.cell[1])

\* C18: when is_taken holds for every cell of the board and taken_cell_count
\* is width * height, random_free_cell returns None and does not panic.
C18_NoneWhenFull ==
    (/\ RandomFreeCellCalled
     /\ call.is_taken = BoardCells(board)
     /\ call.taken_cell_count = width(board) * height(board)) =>
        /\ ~ret.panic
        /\ pc = "returned"
        /\ ret.cell = <<>>

-----------------------------------------------------------------------------
(* The engine after its result is set *)

\* C19: once the result is set, no call of change_player_move_direction, quit
\* or advance changes the body or the facing of the snake, the food position
\* or the board.
C19_TerminalFreezes ==
    [][(pc = "sim" /\ simulation_result # "None") =>
          /\ body' = body
          /\ facing' = facing
          /\ food_position' = food_position
          /\ board' = board]_vars

-----------------------------------------------------------------------------
(* Reversals *)

\* C20: the direction an advance moves the snake in is never the reverse of
\* the direction the advance before it moved it in (of the initial facing for
\* the first advance), whatever directions were passed in between; in the
\* engine the next head position of a snake of two cells or more is never its
\* second body cell.
C20_NoReversal ==
    /\ [](pc = "sim" /\ Len(body) >= 2 => next_head_position # body[2])
    /\ [](pc \in {"snake", "sim"} => facing # Opposite(last_move_direction))
    /\ [][(call'.op \in {"Snake::advance", "advance"} /\ body' # body) =>
              /\ body'[1] = neighbour(body[1], last_move_direction', 1)
              /\ last_move_direction' # Opposite(last_move_direction)]_vars

\* Witness of C20: in the engine, with a snake of two cells or more, a turn
\* was staged and then the reverse of the last move was passed, the second
\* quarter turn; the facing is still the first turn.
C20_Witness ==
    /\ pc = "sim" /\ call.op = "change_player_move_direction"
    /\ old.pc = "sim" /\ OldRunning
    /\ Len(body) >= 2
    /\ old.facing \notin {old.last_move_direction, Opposite(old.last_move_direction)}
    /\ call.dir = Opposite(last_move_direction)
    /\ facing = old.facing
    /\ next_head_position # body[2]

-----------------------------------------------------------------------------
(* The errors of new() *)

\* C21: new() returns FoodOutOfBounds whenever the food is off the board,
\* whatever the snake is; otherwise the first body cell from the head that is
\* off the board or on the food decides: SnakeOutOfBounds when it is off the
\* board, SnakeOverlapsFood when it is on the food.
C21_ErrorPriority ==
    [][(pc = "snake" /\ call'.op = "new") =>
          LET food == call'.point[1]
              violates(i) == ~InBoard(body[i]) \/ body[i] = food
          IN  /\ ~InBoard(food) => ret' = "Err(FoodOutOfBounds)"
              /\ InBoard(food) =>
                    \A i \in 1 .. Len(body) :
                       (violates(i) /\ \A j \in 1 .. (i - 1) : ~violates(j)) =>
                          /\ ~InBoard(body[i]) => ret' = "Err(SnakeOutOfBounds)"
                          /\ InBoard(body[i]) => ret' = "Err(SnakeOverlapsFood)"]_vars

\* Witness of C21: new() has returned SnakeOverlapsFood for food on the board.
C21_Witness ==
    /\ pc = "err" /\ call.op = "new"
    /\ call.point[1] \in BoardCells(board)
    /\ ret = "Err(SnakeOverlapsFood)"

-----------------------------------------------------------------------------
(* Internal consistency of the Snake *)

\* C22: the snake always has at least one body cell, its tail is always a key
\* of the occupancy map, so that pop_tail finds the point it pops, and the
\* only call that panics is an advance() that has grown the snake and then
\* respawns the food: no Snake call and no tail removal panics.
C22_NoInternalFault ==
    /\ pc \in {"snake", "sim"} =>
          /\ Len(body) >= 1
          /\ ~PopTailDiverged(body_point_counts, body)
    /\ pc = "panic" =>
          /\ call.op = "advance"
          /\ Len(body) = Len(old.body) + 1
          /\ ~PopTailDiverged(body_point_counts, body)

\* Witness of C22: in the engine a snake that overlapped itself has moved
\* without eating: its tail was popped from a cell it occupied twice.
C22_Witness ==
    /\ EngineCall("advance") /\ OldRunning /\ pc = "sim"
    /\ old.body_point_counts[OldTail] = 2
    /\ Len(body) = Len(old.body)
    /\ body # old.body
    /\ body_point_counts[OldTail] = 1

-----------------------------------------------------------------------------
(* Board::random_free_cell with any count, under SpecBoard *)

\* C23: whatever taken_cell_count and is_taken are, a cell random_free_cell
\* returns is a cell of the board that is_taken does not hold for; when
\* taken_cell_count is less than the number of taken cells the call does not
\* panic and returns such a cell or None.
C23_NeverATakenCell ==
    RandomFreeCellCalled =>
        /\ ret.cell # <<>> =>
              /\ ~ret.panic
              /\ ret.cell[1] \in BoardCells(board)
              /\ BoardContains(board, ret.cell[1])
              /\ ret.cell[1] \notin call.is_taken
        /\ call.taken_cell_count < Cardinality(call.is_taken) =>
              /\ ~ret.panic
              /\ pc = "returned"
              /\ ret.cell = <<>> \/ ret.cell[1] \in FreeCells

\* Witness of C23: with a count less than the number of taken cells the call
\* has returned None although a cell is free.
C23_Witness ==
    /\ RandomFreeCellCalled /\ pc = "returned"
    /\ call.taken_cell_count < Cardinality(call.is_taken)
    /\ FreeCells # {}
    /\ ret.cell = <<>>
    /\ ret.target_cell >= Cardinality(FreeCells)

-----------------------------------------------------------------------------
(* Board::cell_iter and Board::contains, under SpecBoard *)

\* C24: cell_iter yields width * height cells, each once, rows from min_y up
\* and in a row the cells from min_x up, and they are exactly the points
\* contains holds for: those with min_x <= x < max_x and min_y <= y < max_y.
C24_CellIterMatchesContains ==
    LET cells == cell_iter(board)
        n == Len(cells)
    IN  /\ n = width(board) * height(board)
        /\ \A i, j \in 1 .. n :
              i < j => \/ cells[i].y < cells[j].y
                       \/ cells[i].y = cells[j].y /\ cells[i].x < cells[j].x
        /\ \A p \in World(board) :
              /\ BoardContains(board, p) <=>
                    /\ board.min_x <= p.x /\ p.x < board.max_x
                    /\ board.min_y <= p.y /\ p.y < board.max_y
              /\ BoardContains(board, p) <=> (\E i \in 1 .. n : cells[i] = p)
        /\ \A i \in 1 .. n : cells[i] \in World(board)
        /\ n >= 1 => cells[1] = Vector2(board.min_x, board.min_y)
        /\ n >= 1 => cells[n] = Vector2(board.max_x - 1, board.max_y - 1)

\* Witness of C24: on a board of several rows and columns, with no cell
\* taken, random_free_cell has scanned past the first row: drawing the width
\* it has returned the first cell of the second row.
C24_Witness ==
    /\ RandomFreeCellCalled /\ pc = "returned"
    /\ width(board) >= 2 /\ height(board) >= 2
    /\ call.is_taken = {}
    /\ ret.target_cell = width(board)
    /\ ret.cell = <<Vector2(board.min_x, board.min_y + 1)>>

-----------------------------------------------------------------------------
(* Direction, under SpecDirection *)

\* The quarter turn to the right, as a table.
Clockwise(d) ==
    CASE d = "Up" -> "Right"
      [] d = "Right" -> "Down"
      [] d = "Down" -> "Left"
      [] d = "Left" -> "Up"

\* The methods old.ops[i], .., old.ops[i + Len(ops) - 1] are the given ones.
OpsAt(i, ops) ==
    /\ i + Len(ops) - 1 <= Len(old.ops)
    /\ \A k \in 1 .. Len(ops) : old.ops[i + k - 1] = ops[k]

\* C26: cw turns Up to Right to Down to Left to Up, ccw turns the other way
\* round, flip swaps Up with Down and Left with Right; four ccw in a row give
\* the value back, two cw in a row give its flip, and ccw followed by cw gives
\* the value back.
C26_DirectionAlgebra ==
    \A i \in 1 .. Len(old.ops) :
        LET d == old.values[i]
        IN  /\ OpsAt(i, <<"cw">>) => old.values[i + 1] = Clockwise(d)
            /\ OpsAt(i, <<"ccw">>) => Clockwise(old.values[i + 1]) = d
            /\ OpsAt(i, <<"flip">>) => old.values[i + 1] = Opposite(d)
            /\ OpsAt(i, <<"ccw", "ccw", "ccw", "ccw">>) => old.values[i + 4] = d
            /\ OpsAt(i, <<"cw", "cw">>) => old.values[i + 2] = flip(d)
            /\ OpsAt(i, <<"ccw", "cw">>) => old.values[i + 2] = d

\* Witness of C26: ccw was applied four times to Up and Up is the value again.
C26_Witness ==
    /\ pc = "direction"
    /\ old.ops = <<"ccw", "ccw", "ccw", "ccw">>
    /\ old.values = <<"Up", "Left", "Down", "Right", "Up">>
    /\ facing = "Up"

-----------------------------------------------------------------------------
(* A dying advance *)

\* C28: an advance() of a Running engine that ends in Died(HitWall) or
\* Died(HitSelf) leaves the body, the length, the facing, the last move
\* direction and the food as they were, and the head of the dead snake is on
\* the board.
C28_DeathMovesNothing ==
    (/\ EngineCall("advance") /\ OldRunning
     /\ ret \in {"Died(HitWall)", "Died(HitSelf)"}) =>
        /\ pc = "sim"
        /\ simulation_result = ret
        /\ SnakeUnchanged
        /\ Len(body) = Len(old.body)
        /\ food_position = old.food_position
        /\ head \in BoardCells(board)

\* Witness of C28: a snake with its head at the edge of the board has died of
\* the wall and has not moved.
C28_Witness ==
    /\ EngineCall("advance") /\ OldRunning
    /\ ret = "Died(HitWall)"
    /\ Len(body) >= 2
    /\ body = old.body
    /\ head \in BoardCells(board)
    /\ next_head_position \notin BoardCells(board)

-----------------------------------------------------------------------------
(* Games started from a snake of one cell, under SpecGame *)

\* Two cells next to each other in a row or in a column.
Adjacent(p, q) ==
    \/ p.x = q.x /\ (p.y = q.y + 1 \/ q.y = p.y + 1)
    \/ p.y = q.y /\ (p.x = q.x + 1 \/ q.x = p.x + 1)

\* C27: in an engine built from a snake of one cell the body cells are
\* pairwise distinct and consecutive ones are next to each other, so the
\* length is the number of board cells contains() holds for, the count that
\* random_valid_food_position passes at every respawn, and never more than
\* width * height. It holds in the Running states and in all others.
C27_BodyIsASimplePath ==
    /\ \A i, j \in 1 .. Len(body) : i # j => body[i] # body[j]
    /\ \A i \in 1 .. (Len(body) - 1) : Adjacent(body[i], body[i + 1])
    /\ Len(body) = Cardinality({c \in BoardCells(board) : SnakeContains(c)})
    /\ Len(body) <= width(board) * height(board)

\* Witness of C27: a Running engine after the snake has eaten, grown to four
\* cells or more, and the food was respawned.
C27_Witness ==
    /\ EngineCall("advance") /\ OldRunning
    /\ pc = "sim" /\ simulation_result = "None"
    /\ Len(body) = Len(old.body) + 1
    /\ Len(body) >= 4
    /\ food_position # old.food_position
    /\ food_position[1] \notin Cells(body)

\* C29: while the snake has fewer than five cells every advance() of a
\* Running engine ends in none, Died(HitWall) or Won.
C29_ShortSnakeOutcomes ==
    (EngineCall("advance") /\ OldRunning /\ Len(old.body) < 5) =>
        /\ pc = "sim"
        /\ ret \in {"None", "Died(HitWall)", "Won"}

\* The part of C29 about Died(HitSelf) alone: a snake of fewer than five
\* cells does not run into itself.
C29_NoSelfHitBelowFive ==
    (EngineCall("advance") /\ OldRunning /\ Len(old.body) < 5) =>
        ret # "Died(HitSelf)"

\* A snake of five cells has run into itself.
C29_SelfHitAtFive ==
    /\ EngineCall("advance") /\ OldRunning
    /\ Len(old.body) = 5
    /\ ret = "Died(HitSelf)"

-----------------------------------------------------------------------------
(* Games without input, under SpecStraight *)

\* C30: when only advance() is called, the result is eventually set.
C30_EventuallyTerminal == <>(simulation_result # "None")

-----------------------------------------------------------------------------
(* C25: input delivery between the capture thread and the driving loop *)

\* The commands command_iter yields for a sequence of items of the
\* EventStream, in order.
DecodedCommands(events) ==
    LET kept == SelectSeq(events, LAMBDA event : Decode(event) # NoCommand)
    IN  [i \in 1 .. Len(kept) |-> Decode(kept[i])]

\* The commands applied so far, followed by those still in the channel, are
\* the commands produced, in the order they were produced.
AppliedOnceInOrder == applied \o DecodedCommands(channel) = DecodedCommands(produced)

\* advance() was called once in every iteration that has got to it.
OneAdvancePerIteration ==
    /\ main_pc \in {"test", "done", "aborted"} => advances = iterations
    /\ main_pc \in {"drain", "advance"} => advances = iterations - 1

\* The drain of an iteration never waits: while the for loop runs, main can
\* take its next step whatever the capture thread does, and on an empty
\* channel that step ends the loop; advance() can then be called.
DrainNeverBlocks ==
    /\ main_pc = "drain" /\ channel = <<>> => ENABLED DrainEnds
    /\ main_pc = "drain" /\ channel # <<>> =>
          ENABLED (ReceiveQuit \/ ReceiveChangeDirection \/ ReceiveDropped)
    /\ main_pc = "advance" => ENABLED Tick

\* C25: under every interleaving of the capture thread sending events and
\* main receiving them, each decoded command is applied to the engine at most
\* once and in the order it was produced; the drain of an iteration does not
\* block when the channel is empty but ends, and main goes on to advance(); and
\* advance() is called exactly once in each iteration, whether or not an
\* event arrived.
C25_InputDelivery ==
    /\ AppliedOnceInOrder
    /\ OneAdvancePerIteration
    /\ DrainNeverBlocks

\* Witness of C25: two different commands were produced and both applied, the
\* engine still runs, and advance() was called more often than events were
\* ever sent, so one iteration at least drained an empty channel.
C25_Witness ==
    /\ main_pc = "test"
    /\ simulation_result = "None"
    /\ Len(applied) = 2
    /\ applied[1] # applied[2]
    /\ channel = <<>>
    /\ advances > Len(produced)

====
